---- MODULE Spec2Model ----
(***************************************************************************)
(* Model of the nextjs data-fetcher rewriting loader:                      *)
(*   packages/nextjs/src/config/loaders/ast.ts          (tree queries,     *)
(*                                                        renamer)         *)
(*   packages/nextjs/src/config/wrappers/wrapperUtils.ts (wrapFunctions,   *)
(*                                                        the loader,      *)
(*                                                        wrapperCore)     *)
(*                                                                         *)
(* Strings.  A JS string that is used as a name is a "word": a sequence of *)
(* atoms, each atom a chunk of characters.  Concatenation of strings is    *)
(* concatenation of words, '' is << >>.  The atoms are chosen so that no   *)
(* atom other than "_" occurs inside another one, hence equality and       *)
(* substring search on words agree with those on the strings they spell.   *)
(* A source text is a sequence of lines (the text split at "\n"), a line   *)
(* is a sequence of words (the text split at blanks); '' is one empty      *)
(* line.                                                                   *)
(***************************************************************************)
EXTENDS Integers, Sequences, FiniteSets, TLC

VARIABLES
    DATA_FETCHING_FUNCTIONS, \* the module-level registry of wrapperUtils.ts
    templateFile,            \* content of templates/dataFetchersLoaderTemplate.js
    loader,                  \* the loader invocation in progress / just finished
    job,                     \* a direct call of an ast.ts function (RenameSpec)
    wrapper                  \* a call of wrapperCore at run time (WrapSpec)

vars == <<DATA_FETCHING_FUNCTIONS, templateFile, loader, job, wrapper>>

----------------------------------------------------------------------------
(* Bounds *)

\* longest user text, in lines
MaxLines == 2
\* largest tree handed directly to the ast.ts functions, in nodes
MaxNodes == 2
\* depth of nested renameIdentifiers calls after which the JS engine throws
\* "Maximum call stack size exceeded"
MaxCallStack == 7

----------------------------------------------------------------------------
(* Words *)

EmptyString == << >>
Underscore == <<"_">>

gSSP == <<"getServerSideProps">>
gSProps == <<"getStaticProps">>
gSPaths == <<"getStaticPaths">>

\* Object.keys(DATA_FETCHING_FUNCTIONS), in insertion order
FunctionNames == <<"getServerSideProps", "getStaticProps", "getStaticPaths">>

\* the property name of the registry spelled as an identifier name
NameOf(functionName) == <<functionName>>

\* String.prototype.includes on a single word
WordIncludes(word, sub) ==
    \E i \in 0..(Len(word) - Len(sub)) : SubSeq(word, i + 1, i + Len(sub)) = sub

\* userCode.includes(name): a name never contains a blank or a newline, so it
\* occurs in the text iff it occurs inside one of its words
includes(code, name) ==
    \E l \in 1..Len(code) : \E w \in 1..Len(code[l]) : WordIncludes(code[l][w], name)

----------------------------------------------------------------------------
(* Source texts and syntax trees *)

W(atom) == <<atom>>

\* atoms that are keywords or punctuation, never part of an identifier
ReservedAtoms ==
    {"import", "export", "as", "function", "const", "type",
     "=", ",", "{", "}", ":", "(", ")", ".", "//", "0"}

IsIdentifierName(word) ==
    /\ Len(word) > 0
    /\ \A i \in 1..Len(word) : word[i] \notin ReservedAtoms

\* '' split at "\n"
EmptyText == << << >> >>

\* `${a}\n${b}` on texts
JoinWithNewline(a, b) == a \o b

\* The tree of one line of code.  A tree is the sequence of the nodes the
\* code inspects, in the order ast.find() visits them; a node keeps the
\* names of its Identifier children in its fields.
SyntaxError == [type |-> "SyntaxError"]

ParseLine(line, isTS) ==
    LET n == Len(line)
        id(k) == k <= n /\ IsIdentifierName(line[k])
        is(k, atom) == k <= n /\ line[k] = W(atom)
    IN
    CASE n = 0 -> [type |-> "EmptyStatement"]
      [] is(1, "//") -> [type |-> "Comment", text |-> line]
      [] n = 2 /\ is(1, "import") /\ id(2) ->
            [type |-> "ImportSpecifier", imported |-> line[2], local |-> line[2]]
      [] n = 4 /\ is(1, "import") /\ id(2) /\ is(3, "as") /\ id(4) ->
            [type |-> "ImportSpecifier", imported |-> line[2], local |-> line[4]]
      [] n = 2 /\ is(1, "export") /\ id(2) ->
            [type |-> "ExportSpecifier", local |-> line[2], exported |-> line[2]]
      [] n = 4 /\ is(1, "export") /\ id(2) /\ is(3, "as") /\ id(4) ->
            [type |-> "ExportSpecifier", local |-> line[2], exported |-> line[4]]
      [] n = 2 /\ is(1, "function") /\ id(2) ->
            [type |-> "FunctionDeclaration", id |-> line[2], exportNamed |-> FALSE]
      [] n = 3 /\ is(1, "export") /\ is(2, "function") /\ id(3) ->
            [type |-> "FunctionDeclaration", id |-> line[3], exportNamed |-> TRUE]
      [] n = 4 /\ is(1, "const") /\ id(2) /\ is(3, "=") /\ id(4) ->
            [type |-> "VariableDeclaration",
             declarations |-> << [id |-> line[2], init |-> line[4]] >>]
      [] n = 8 /\ is(1, "const") /\ id(2) /\ is(3, "=") /\ id(4) /\ is(5, ",")
               /\ id(6) /\ is(7, "=") /\ id(8) ->
            [type |-> "VariableDeclaration",
             declarations |-> << [id |-> line[2], init |-> line[4]],
                                 [id |-> line[6], init |-> line[8]] >>]
      [] n = 4 /\ is(1, "const") /\ is(2, "{") /\ id(3) /\ is(4, "}") ->
            [type |-> "Property", within |-> "ObjectPattern", key |-> line[3],
             value |-> line[3], shorthand |-> TRUE, valueType |-> "Identifier"]
      [] n = 6 /\ is(1, "const") /\ is(2, "{") /\ id(3) /\ is(4, ":") /\ id(5)
               /\ is(6, "}") ->
            [type |-> "Property", within |-> "ObjectPattern", key |-> line[3],
             value |-> line[5], shorthand |-> FALSE, valueType |-> "Identifier"]
      [] n = 6 /\ is(1, "const") /\ is(2, "{") /\ id(3) /\ is(4, "=") /\ is(5, "0")
               /\ is(6, "}") ->
            [type |-> "Property", within |-> "ObjectPattern", key |-> line[3],
             value |-> line[3], shorthand |-> TRUE, valueType |-> "AssignmentPattern"]
      [] n = 5 /\ is(1, "(") /\ is(2, "{") /\ id(3) /\ is(4, "}") /\ is(5, ")") ->
            [type |-> "Property", within |-> "ObjectExpression", key |-> line[3],
             value |-> line[3], shorthand |-> TRUE, valueType |-> "Identifier"]
      [] n = 7 /\ is(1, "(") /\ is(2, "{") /\ id(3) /\ is(4, ":") /\ id(5)
               /\ is(6, "}") /\ is(7, ")") ->
            [type |-> "Property", within |-> "ObjectExpression", key |-> line[3],
             value |-> line[5], shorthand |-> FALSE, valueType |-> "Identifier"]
      [] n = 3 /\ id(1) /\ is(2, ".") /\ id(3) ->
            [type |-> "MemberExpression", object |-> line[1], property |-> line[3]]
      [] n = 2 /\ is(1, "type") /\ id(2) /\ isTS ->
            [type |-> "TSTypeAliasDeclaration", id |-> line[2]]
      [] OTHER -> SyntaxError

\* makeParser('tsx') / makeParser('jsx') applied to the code
Parses(code, isTS) ==
    \A l \in 1..Len(code) : ParseLine(code[l], isTS) # SyntaxError

RECURSIVE ParseFrom(_, _, _)
ParseFrom(code, isTS, l) ==
    IF l > Len(code) THEN << >>
    ELSE <<ParseLine(code[l], isTS)>> \o ParseFrom(code, isTS, l + 1)

\* makeAST: the tree of a code that parses (it throws on one that does not)
makeAST(code, isTS) == ParseFrom(code, isTS, 1)

\* The text the printer writes for one node
PrintNode(node) ==
    CASE node.type = "EmptyStatement" -> << >>
      [] node.type = "Comment" -> node.text
      [] node.type = "ImportSpecifier" ->
            IF node.imported = node.local
            THEN <<W("import"), node.imported>>
            ELSE <<W("import"), node.imported, W("as"), node.local>>
      [] node.type = "ExportSpecifier" ->
            IF node.exported = node.local
            THEN <<W("export"), node.local>>
            ELSE <<W("export"), node.local, W("as"), node.exported>>
      [] node.type = "FunctionDeclaration" ->
            IF node.exportNamed
            THEN <<W("export"), W("function"), node.id>>
            ELSE <<W("function"), node.id>>
      [] node.type = "VariableDeclaration" ->
            IF Len(node.declarations) = 1
            THEN <<W("const"), node.declarations[1].id, W("="), node.declarations[1].init>>
            ELSE <<W("const"), node.declarations[1].id, W("="), node.declarations[1].init,
                   W(","), node.declarations[2].id, W("="), node.declarations[2].init>>
      [] node.type = "Property" ->
            LET open == IF node.within = "ObjectPattern"
                        THEN <<W("const"), W("{")>> ELSE <<W("("), W("{")>>
                close == IF node.within = "ObjectPattern"
                         THEN <<W("}")>> ELSE <<W("}"), W(")")>>
                dflt == IF node.valueType = "AssignmentPattern"
                        THEN <<W("="), W("0")>> ELSE << >>
                body == IF node.shorthand
                        THEN IF node.valueType = "AssignmentPattern"
                             THEN <<node.value>> ELSE <<node.key>>
                        ELSE <<node.key, W(":"), node.value>>
            IN open \o body \o dflt \o close
      [] node.type = "MemberExpression" -> <<node.object, W("."), node.property>>
      [] node.type = "TSTypeAliasDeclaration" -> <<W("type"), node.id>>

\* ast.toSource(): the text of a tree; the text of an empty tree is ''
RECURSIVE PrintFrom(_, _)
PrintFrom(ast, i) ==
    IF i > Len(ast) THEN << >> ELSE <<PrintNode(ast[i])>> \o PrintFrom(ast, i + 1)

toSource(ast) ==
    IF Len(ast) = 0 THEN EmptyText ELSE PrintFrom(ast, 1)

----------------------------------------------------------------------------
(* Node paths: ast.ts works on NodePaths, a node with its ancestors *)

\* the Identifier children of a node, in the order the traversal visits them
\* (the field order of the node type; `local` comes before `exported`)
IdentifierFields(node) ==
    CASE node.type = "ImportSpecifier" -> <<"local", "imported">>
      [] node.type = "ExportSpecifier" -> <<"local", "exported">>
      [] node.type = "Property" -> <<"key", "value">>
      [] node.type = "MemberExpression" -> <<"object", "property">>
      [] node.type = "FunctionDeclaration" -> <<"id">>
      [] node.type = "TSTypeAliasDeclaration" -> <<"id">>
      [] node.type = "VariableDeclaration" ->
            IF Len(node.declarations) = 1 THEN <<"id1", "init1">>
            ELSE <<"id1", "init1", "id2", "init2">>
      [] OTHER -> << >>

\* path.node.name
NameAt(ast, path) ==
    LET node == ast[path.i] IN
    CASE path.f = "id1" -> node.declarations[1].id
      [] path.f = "init1" -> node.declarations[1].init
      [] path.f = "id2" -> node.declarations[2].id
      [] path.f = "init2" -> node.declarations[2].init
      [] OTHER -> node[path.f]

\* path.node.name = name
SetName(ast, path, name) ==
    LET node == ast[path.i] IN
    CASE path.f = "id1" -> [ast EXCEPT ![path.i].declarations[1].id = name]
      [] path.f = "init1" -> [ast EXCEPT ![path.i].declarations[1].init = name]
      [] path.f = "id2" -> [ast EXCEPT ![path.i].declarations[2].id = name]
      [] path.f = "init2" -> [ast EXCEPT ![path.i].declarations[2].init = name]
      [] OTHER -> [ast EXCEPT ![path.i][path.f] = name]

RECURSIVE PathsOf(_, _, _)
PathsOf(i, fields, k) ==
    IF k > Len(fields) THEN << >>
    ELSE <<[i |-> i, f |-> fields[k]]>> \o PathsOf(i, fields, k + 1)

RECURSIVE PathsFrom(_, _)
PathsFrom(ast, i) ==
    IF i > Len(ast) THEN << >>
    ELSE PathsOf(i, IdentifierFields(ast[i]), 1) \o PathsFrom(ast, i + 1)

\* ast.find(Identifier)
IdentifierPaths(ast) == PathsFrom(ast, 1)

\* identifierPath.parentPath.node, by its type
ParentType(ast, path) ==
    LET node == ast[path.i] IN
    CASE node.type = "Property" /\ path.f = "value" /\ node.valueType = "AssignmentPattern"
            -> "AssignmentPattern"
      [] node.type = "VariableDeclaration" -> "VariableDeclarator"
      [] OTHER -> node.type

\* identifierPath.parentPath.parentPath.node, by its type
GrandparentType(ast, path) ==
    LET node == ast[path.i] IN
    CASE node.type = "Property" /\ ParentType(ast, path) = "Property" -> node.within
      [] node.type = "Property" -> "Property"
      [] node.type = "VariableDeclaration" -> "VariableDeclaration"
      [] node.type \in {"ImportSpecifier"} -> "ImportDeclaration"
      [] node.type \in {"ExportSpecifier"} -> "ExportNamedDeclaration"
      [] OTHER -> "Program"

----------------------------------------------------------------------------
(* ast.ts: queries *)

findIdentifiers(ast, name) ==
    LET identifierFilter(path) == NameAt(ast, path) = name
    IN SelectSeq(IdentifierPaths(ast), identifierFilter)

\* the indices of the matching VariableDeclaration nodes
findDeclarations(ast, name) ==
    LET declarationFilter(i) ==
            /\ ast[i].type = "VariableDeclaration"
            /\ Len(ast[i].declarations) = 1
            /\ ast[i].declarations[1].id = name
    IN {i \in 1..Len(ast) : declarationFilter(i)}

\* the indices of the matching ExportSpecifier nodes
findExports(ast, name) ==
    LET exportFilter(i) ==
            /\ ast[i].type = "ExportSpecifier"
            /\ ast[i].exported = name
    IN {i \in 1..Len(ast) : exportFilter(i)}

\* Collection.remove(): the tree without the nodes at the given indices
RECURSIVE RemoveFrom(_, _, _)
RemoveFrom(ast, indices, i) ==
    IF i > Len(ast) THEN << >>
    ELSE (IF i \in indices THEN << >> ELSE <<ast[i]>>) \o RemoveFrom(ast, indices, i + 1)

remove(ast, indices) == RemoveFrom(ast, indices, 1)

\* removeComments on the template tree
removeComments(ast) ==
    remove(ast, {i \in 1..Len(ast) : ast[i].type = "Comment"})

\* the loop of findAvailibleAlias taking the first name it tries
AliasLoop_firstTry(userAST, lastName) == Underscore \o lastName

\* the while loop of findAvailibleAlias, entered with the last name tried
RECURSIVE AliasLoop(_, _)
AliasLoop(userAST, lastName) ==
    LET newName == Underscore \o lastName
        existingIdentifiers == findIdentifiers(userAST, newName)
        foundAvailableName == Len(existingIdentifiers) = 0
    IN IF foundAvailableName THEN newName ELSE AliasLoop(userAST, newName)

\* findAvailibleAlias entering its loop with a name already prefixed
findAvailibleAlias_prefixedAtEntry(userAST, origName) ==
    AliasLoop(userAST, Underscore \o origName)

findAvailibleAlias(userAST, origName) == AliasLoop(userAST, origName)

----------------------------------------------------------------------------
(* ast.ts: the renamer *)

\* The state a call of renameIdentifiers works on:
\*   ast       the tree, renamed in place
\*   result    what the outermost call returns: <<alias>>, or << >> for undefined
\*   deepest   the deepest nesting of renameIdentifiers calls so far (outermost = 0)
\*   recursed  the ExportSpecifier nodes whose `exported` started a nested call
\*   overflow  the call stack was exhausted (a RangeError is propagating)
StartOn(ast) ==
    [ast |-> ast, result |-> << >>, deepest |-> 0, recursed |-> {}, overflow |-> FALSE]

Max(a, b) == IF a >= b THEN a ELSE b

\* Property.check(parent) && (ObjectPattern | ObjectExpression).check(grandparent)
IsPropertyOfObject(ast, identifierPath) ==
    /\ ParentType(ast, identifierPath) = "Property"
    /\ GrandparentType(ast, identifierPath) \in {"ObjectPattern", "ObjectExpression"}

\* ReturnsEarly without the check of member accesses
ReturnsEarly_withoutMemberCheck(ast, identifierPath) ==
    \/ /\ ParentType(ast, identifierPath) = "ImportSpecifier"
       /\ identifierPath.f = "imported"
    \/ /\ ParentType(ast, identifierPath) = "Property"
       /\ GrandparentType(ast, identifierPath) \in {"ObjectPattern", "ObjectExpression"}
       /\ identifierPath.f = "key"

\* the `return`s of maybeRenameNode that leave the node as it is
ReturnsEarly(ast, identifierPath) ==
    \/ /\ ParentType(ast, identifierPath) = "ImportSpecifier"
       /\ identifierPath.f = "imported"
    \/ /\ ParentType(ast, identifierPath) = "Property"
       /\ GrandparentType(ast, identifierPath) = "ObjectPattern"
       /\ identifierPath.f = "key"
    \/ /\ ParentType(ast, identifierPath) = "Property"
       /\ GrandparentType(ast, identifierPath) = "ObjectExpression"
       /\ identifierPath.f = "key"
    \/ /\ ParentType(ast, identifierPath) = "MemberExpression"
       /\ identifierPath.f = "property"

RECURSIVE renameIdentifiersAt(_, _, _, _)
RECURSIVE forEachMatchingNode(_, _, _, _, _)
RECURSIVE maybeRenameNode(_, _, _, _)

maybeRenameNode(st, identifierPath, alias, depth) ==
    IF ReturnsEarly(st.ast, identifierPath) THEN st
    ELSE
        LET ast == st.ast
            i == identifierPath.i
            unshorthanded ==
                IF IsPropertyOfObject(ast, identifierPath)
                THEN [st EXCEPT !.ast[i].shorthand = FALSE] ELSE st
            afterExport ==
                IF /\ ParentType(ast, identifierPath) = "ExportSpecifier"
                   /\ ast[i].exported # ast[i].local
                   /\ identifierPath.f = "exported"
                THEN LET currentLocalName == ast[i].local
                     IN renameIdentifiersAt(
                            [unshorthanded EXCEPT !.recursed = @ \cup {i}],
                            currentLocalName, alias, depth + 1)
                ELSE unshorthanded
        IN IF afterExport.overflow THEN afterExport
           ELSE [afterExport EXCEPT !.ast = SetName(afterExport.ast, identifierPath, alias)]

\* matchingNodes.forEach(nodePath => maybeRenameNode(ast, nodePath, alias))
forEachMatchingNode(st, matchingNodes, k, alias, depth) ==
    IF k > Len(matchingNodes) \/ st.overflow THEN st
    ELSE forEachMatchingNode(maybeRenameNode(st, matchingNodes[k], alias, depth),
                             matchingNodes, k + 1, alias, depth)

\* renameIdentifiers generating an alias of its own on every call
renameIdentifiersAt_ownAliasEachCall(st, origName, newName, depth) ==
    IF depth > MaxCallStack THEN [st EXCEPT !.overflow = TRUE]
    ELSE
        LET matchingNodes == findIdentifiers(st.ast, origName)
            entered == [st EXCEPT !.deepest = Max(@, depth)]
        IN IF Len(matchingNodes) > 0
           THEN LET alias == findAvailibleAlias(st.ast, origName)
                    renamed == forEachMatchingNode(entered, matchingNodes, 1, alias, depth)
                IN [renamed EXCEPT !.result = <<alias>>]
           ELSE [entered EXCEPT !.result = << >>]

\* renameIdentifiers entered with `depth` calls of it already on the stack;
\* newName = '' stands for an argument that was not given (both are falsy)
renameIdentifiersAt(st, origName, newName, depth) ==
    IF depth > MaxCallStack THEN [st EXCEPT !.overflow = TRUE]
    ELSE
        LET matchingNodes == findIdentifiers(st.ast, origName)
            entered == [st EXCEPT !.deepest = Max(@, depth)]
        IN IF Len(matchingNodes) > 0
           THEN LET alias == IF newName # EmptyString THEN newName
                             ELSE findAvailibleAlias(st.ast, origName)
                    renamed == forEachMatchingNode(entered, matchingNodes, 1, alias, depth)
                IN [renamed EXCEPT !.result = <<alias>>]
           ELSE [entered EXCEPT !.result = << >>]

renameIdentifiers(ast, origName, newName) ==
    renameIdentifiersAt(StartOn(ast), origName, newName, 0)

----------------------------------------------------------------------------
(* wrapperUtils.ts: the registry, wrapFunctions and the loader *)

InitialRegistry ==
    [getServerSideProps |-> [placeholder |-> <<"__ORIG_GSSP__">>, alias |-> EmptyString],
     getStaticProps |-> [placeholder |-> <<"__ORIG_GSPROPS__">>, alias |-> EmptyString],
     getStaticPaths |-> [placeholder |-> <<"__ORIG_GSPATHS__">>, alias |-> EmptyString]]

\* no loader invocation in progress
Idle == [status |-> "idle"]

\* no direct call of an ast.ts function in progress
NoJob == [phase |-> "none"]

\* no call of wrapperCore in progress
NotCalled == [pc |-> "none"]

\* String.prototype.replace(pattern, replacement) with a string pattern, on a
\* word: the first occurrence only
ReplaceInWord(word, pattern, replacement) ==
    LET hits == {i \in 0..(Len(word) - Len(pattern)) :
                    SubSeq(word, i + 1, i + Len(pattern)) = pattern}
    IN IF hits = {} THEN word
       ELSE LET i == CHOOSE h \in hits : \A g \in hits : h <= g
            IN SubSeq(word, 1, i) \o replacement
                 \o SubSeq(word, i + Len(pattern) + 1, Len(word))

\* the same on a text: the first word, of the first line, that holds the pattern
replace(text, pattern, replacement) ==
    LET lines == {l \in 1..Len(text) :
                     \E w \in 1..Len(text[l]) : WordIncludes(text[l][w], pattern)}
    IN IF lines = {} THEN text
       ELSE LET l == CHOOSE h \in lines : \A g \in lines : h <= g
                words == {w \in 1..Len(text[l]) : WordIncludes(text[l][w], pattern)}
                w == CHOOSE h \in words : \A g \in words : h <= g
            IN [text EXCEPT ![l][w] = ReplaceInWord(@, pattern, replacement)]

\* new RegExp('\\.tsx?$').test(filepath); a path is a word ending in its extension
IsTSPath(filepath) ==
    Len(filepath) > 0 /\ filepath[Len(filepath)] \in {".ts", ".tsx"}

\* isESM (utils/isESM): the code has an import or an export statement
isESM(code) ==
    \E l \in 1..Len(code) :
        Len(code[l]) > 0 /\ code[l][1] \in {W("import"), W("export")}

\* nodePath.node.name = functionAlias for every path of matchingNodes
RECURSIVE SetAllNames(_, _, _, _)
SetAllNames(ast, matchingNodes, k, functionAlias) ==
    IF k > Len(matchingNodes) THEN ast
    ELSE SetAllNames(SetName(ast, matchingNodes[k], functionAlias),
                     matchingNodes, k + 1, functionAlias)

\* the loop body of wrapFunctions deleting the exports of a function that is
\* not in the user code, but not its declaration
WrapOneFunction_keepsDeclarations(s, functionName) ==
    LET matchingNodes == findIdentifiers(s.userAST, NameOf(functionName))
    IN IF Len(matchingNodes) > 0
       THEN LET functionAlias == findAvailibleAlias(s.userAST, NameOf(functionName))
            IN [s EXCEPT !.userAST = SetAllNames(@, matchingNodes, 1, functionAlias),
                         !.registry[functionName].alias = functionAlias,
                         !.aliasWrites[functionName] = @ + 1]
       ELSE [s EXCEPT !.templateAST =
                remove(@, findExports(s.templateAST, NameOf(functionName)))]

\* the loop body of wrapFunctions leaving the template as it is when the
\* function is not in the user code
WrapOneFunction_keepsWrappers(s, functionName) ==
    LET matchingNodes == findIdentifiers(s.userAST, NameOf(functionName))
    IN IF Len(matchingNodes) > 0
       THEN LET functionAlias == findAvailibleAlias(s.userAST, NameOf(functionName))
            IN [s EXCEPT !.userAST = SetAllNames(@, matchingNodes, 1, functionAlias),
                         !.registry[functionName].alias = functionAlias,
                         !.aliasWrites[functionName] = @ + 1]
       ELSE s

\* one iteration of the for loop of wrapFunctions; `s` holds the two trees, the
\* registry, and how often each alias has been assigned in this invocation
WrapOneFunction(s, functionName) ==
    LET matchingNodes == findIdentifiers(s.userAST, NameOf(functionName))
    IN IF Len(matchingNodes) > 0
       THEN LET functionAlias == findAvailibleAlias(s.userAST, NameOf(functionName))
            IN [s EXCEPT !.userAST = SetAllNames(@, matchingNodes, 1, functionAlias),
                         !.registry[functionName].alias = functionAlias,
                         !.aliasWrites[functionName] = @ + 1]
       ELSE LET withoutExports ==
                    remove(s.templateAST, findExports(s.templateAST, NameOf(functionName)))
                withoutDeclarations ==
                    remove(withoutExports,
                           findDeclarations(withoutExports, NameOf(functionName)))
            IN [s EXCEPT !.templateAST = withoutDeclarations]

RECURSIVE ForEachFunction(_, _)
ForEachFunction(s, k) ==
    IF k > Len(FunctionNames) THEN s
    ELSE ForEachFunction(WrapOneFunction(s, FunctionNames[k]), k + 1)

NoWrites == [getServerSideProps |-> 0, getStaticProps |-> 0, getStaticPaths |-> 0]

\* what wrapFunctions returns when makeAST throws, after `calls` calls of it
ParsingError(registry, userCode, calls) ==
    [code |-> <<userCode, EmptyText>>, registry |-> registry, warnings |-> 1,
     makeASTCalls |-> calls, aliasWrites |-> NoWrites, userAST |-> << >>]

\* what wrapFunctions returns after its loop has left the state `s`
Rendered(s) ==
    [code |-> <<toSource(s.userAST), toSource(s.templateAST)>>,
     registry |-> s.registry, warnings |-> 0, makeASTCalls |-> 2,
     aliasWrites |-> s.aliasWrites, userAST |-> s.userAST]

\* wrapFunctions: the two texts it returns, with what it did on the way
\*   registry      DATA_FETCHING_FUNCTIONS when it returns
\*   warnings      calls of logger.warn
\*   makeASTCalls  calls of makeAST
\*   aliasWrites   assignments to each alias of the registry
\*   userAST       the user tree when it was printed
wrapFunctions(registry, userCode, templateCode, filepath) ==
    IF ~Parses(userCode, IsTSPath(filepath)) THEN ParsingError(registry, userCode, 1)
    ELSE IF ~Parses(templateCode, FALSE) THEN ParsingError(registry, userCode, 2)
    ELSE Rendered(ForEachFunction(
                      [userAST |-> makeAST(userCode, IsTSPath(filepath)),
                       templateAST |-> removeComments(makeAST(templateCode, FALSE)),
                       registry |-> registry,
                       aliasWrites |-> NoWrites], 1))

RECURSIVE FillPlaceholders(_, _, _)

\* the loop filling in the placeholders leaving out the last function
FillPlaceholders_withoutLast(injectedCode, registry, k) ==
    IF k >= Len(FunctionNames) THEN injectedCode
    ELSE FillPlaceholders(replace(injectedCode, registry[FunctionNames[k]].placeholder,
                                  registry[FunctionNames[k]].alias),
                          registry, k + 1)

\* the loop filling in the template placeholders, over Object.values(registry)
FillPlaceholders(injectedCode, registry, k) ==
    IF k > Len(FunctionNames) THEN injectedCode
    ELSE FillPlaceholders(replace(injectedCode, registry[FunctionNames[k]].placeholder,
                                  registry[FunctionNames[k]].alias),
                          registry, k + 1)

\* the loader returning the user code as it is, before any other work
Bypass(registry, userCode) ==
    [output |-> userCode, registry |-> registry, warnings |-> 0,
     makeASTCalls |-> 0, templateReads |-> 0, dependencies |-> 0,
     aliasWrites |-> NoWrites, userAST |-> << >>,
     modifiedTemplateCode |-> EmptyText, injectedCode |-> EmptyText,
     rewritten |-> FALSE]

\* the loader past wrapFunctions: placeholders filled in, the two texts joined
Spliced(wrapped) ==
    [output |-> JoinWithNewline(wrapped.code[1],
                                FillPlaceholders(wrapped.code[2], wrapped.registry, 1)),
     registry |-> wrapped.registry, warnings |-> wrapped.warnings,
     makeASTCalls |-> wrapped.makeASTCalls, templateReads |-> 1,
     dependencies |-> 1, aliasWrites |-> wrapped.aliasWrites,
     userAST |-> wrapped.userAST,
     modifiedTemplateCode |-> wrapped.code[2],
     injectedCode |-> FillPlaceholders(wrapped.code[2], wrapped.registry, 1),
     rewritten |-> wrapped.warnings = 0]

\* the loader without its module-form gate
wrapDataFetchersLoader_withoutGate(registry, template, userCode, resourcePath) ==
    IF \A k \in 1..Len(FunctionNames) : ~includes(userCode, NameOf(FunctionNames[k]))
    THEN Bypass(registry, userCode)
    ELSE Spliced(wrapFunctions(registry, userCode, template, resourcePath))

\* wrapDataFetchersLoader: what one invocation returns and does
\*   output          the returned text
\*   registry        DATA_FETCHING_FUNCTIONS when it returns
\*   templateReads   calls of fs.readFileSync
\*   dependencies    calls of this.addDependency
\*   rewritten       wrapFunctions went through its loop
\* and, from wrapFunctions, warnings, makeASTCalls, aliasWrites, userAST and the
\* template text it returned
wrapDataFetchersLoader(registry, template, userCode, resourcePath) ==
    IF ~isESM(userCode) THEN Bypass(registry, userCode)
    ELSE IF \A k \in 1..Len(FunctionNames) : ~includes(userCode, NameOf(FunctionNames[k]))
    THEN Bypass(registry, userCode)
    ELSE Spliced(wrapFunctions(registry, userCode, template, resourcePath))

----------------------------------------------------------------------------
(* Inputs of the direct calls of the ast.ts functions *)

foo == <<"foo">>
bar == <<"bar">>
_gSSP == Underscore \o gSSP
__gSSP == Underscore \o _gSSP

\* names that occur in every kind of node / in export specifiers as well
FewNames == {gSSP, foo}
ExportNames == {gSSP, foo, bar}

TreeNodes ==
    {[type |-> "ImportSpecifier", imported |-> a, local |-> b] : a, b \in FewNames}
    \cup {[type |-> "ExportSpecifier", local |-> a, exported |-> b] : a, b \in ExportNames}
    \cup {[type |-> "Property", within |-> w, key |-> a, value |-> b,
           shorthand |-> FALSE, valueType |-> "Identifier"] :
              w \in {"ObjectPattern", "ObjectExpression"}, a \in FewNames, b \in FewNames}
    \cup {[type |-> "Property", within |-> w, key |-> a, value |-> a,
           shorthand |-> TRUE, valueType |-> "Identifier"] :
              w \in {"ObjectPattern", "ObjectExpression"}, a \in FewNames}
    \cup {[type |-> "Property", within |-> "ObjectPattern", key |-> a, value |-> a,
           shorthand |-> TRUE, valueType |-> "AssignmentPattern"] : a \in FewNames}
    \cup {[type |-> "MemberExpression", object |-> a, property |-> b] : a, b \in FewNames}
    \cup {[type |-> "FunctionDeclaration", id |-> a, exportNamed |-> FALSE] :
              a \in FewNames \cup {_gSSP, __gSSP}}

Trees == UNION {[1..n -> TreeNodes] : n \in 1..MaxNodes}

\* the alias handed to renameIdentifiers: none, a fresh name, a name in use
_orig == Underscore \o <<"orig">>
GivenNames == {EmptyString, _orig, foo}

RenameInit ==
    /\ DATA_FETCHING_FUNCTIONS = InitialRegistry
    /\ templateFile = EmptyText
    /\ loader = Idle
    /\ wrapper = NotCalled
    /\ job \in {[phase |-> "ready", ast |-> t, origName |-> gSSP, newName |-> n] :
                   t \in Trees, n \in GivenNames}

CallRenameIdentifiers ==
    /\ job.phase = "ready"
    /\ job' = [phase |-> "renamed", ast |-> job.ast, origName |-> job.origName,
               newName |-> job.newName,
               out |-> renameIdentifiers(job.ast, job.origName, job.newName)]
    /\ UNCHANGED <<DATA_FETCHING_FUNCTIONS, templateFile, loader, wrapper>>

CallFindAvailibleAlias ==
    /\ job.phase = "ready"
    /\ job.newName = EmptyString
    /\ job' = [phase |-> "allocated", ast |-> job.ast, origName |-> job.origName,
               newName |-> job.newName,
               alias |-> findAvailibleAlias(job.ast, job.origName)]
    /\ UNCHANGED <<DATA_FETCHING_FUNCTIONS, templateFile, loader, wrapper>>

RenameNext == CallRenameIdentifiers \/ CallFindAvailibleAlias

RenameSpec == RenameInit /\ [][RenameNext]_vars

----------------------------------------------------------------------------
(* The loader at work: webpack hands it one page module after the other *)

\* templates/dataFetchersLoaderTemplate.js as built: for each function a
\* declaration of the wrapper, holding the placeholder, and its export
TemplateDeclarations ==
    <<  <<W("const"), gSSP, W("="), <<"__ORIG_GSSP__">> >>,
        <<W("const"), gSProps, W("="), <<"__ORIG_GSPROPS__">> >>,
        <<W("const"), gSPaths, W("="), <<"__ORIG_GSPATHS__">> >>  >>

TemplateExports ==
    <<  <<W("export"), gSSP>>, <<W("export"), gSProps>>, <<W("export"), gSPaths>>  >>

TemplateHeader ==
    <<  <<W("//"), W("wrappers"), W("of"), W("the"), W("data"), W("fetchers")>>,
        <<W("import"), <<"withSentry">> >>  >>

TemplateFiles ==
    { TemplateHeader \o TemplateDeclarations \o TemplateExports,
      TemplateHeader
        \o <<TemplateDeclarations[1], TemplateExports[1], TemplateDeclarations[2],
             TemplateExports[2], TemplateDeclarations[3], TemplateExports[3]>> }

gSPropsX == <<"getStaticProps", "X">>

\* the lines user pages are made of
UserLines ==
    {   <<W("export"), W("function"), gSSP>>,
        <<W("export"), W("function"), gSProps>>,
        <<W("export"), W("function"), gSPaths>>,
        <<W("export"), W("function"), foo>>,
        <<W("function"), gSSP>>,
        <<W("function"), foo>>,
        <<W("function"), _gSSP>>,
        <<W("function"), gSPropsX>>,
        <<W("import"), gSSP>>,
        <<W("import"), foo, W("as"), gSProps>>,
        <<W("export"), foo, W("as"), gSSP>>,
        <<W("export"), gSProps>>,
        <<W("const"), gSSP, W("="), foo>>,
        <<W("const"), W("{"), gSSP, W("}")>>,
        <<W("("), W("{"), gSPaths, W(":"), foo, W("}"), W(")")>>,
        <<foo, W("."), gSProps>>,
        <<W("//"), W("no"), gSSP, W("here")>>,
        <<W("type"), foo>>,
        <<W("{")>>   }

UserTexts == UNION {[1..n -> UserLines] : n \in 1..MaxLines}

\* path.relative(projectDir, this.resourcePath)
ResourcePaths == { <<"pages/index", ".js">>, <<"pages/index", ".tsx">> }

Init ==
    /\ DATA_FETCHING_FUNCTIONS = InitialRegistry
    /\ templateFile \in TemplateFiles
    /\ loader = Idle
    /\ job = NoJob
    /\ wrapper = NotCalled

\* the record of an invocation that has returned `r`
Returned(userCode, resourcePath, registryBefore, r) ==
    [status |-> "returned", userCode |-> userCode, resourcePath |-> resourcePath,
     registryBefore |-> registryBefore, output |-> r.output, registry |-> r.registry,
     warnings |-> r.warnings, makeASTCalls |-> r.makeASTCalls,
     templateReads |-> r.templateReads, dependencies |-> r.dependencies,
     aliasWrites |-> r.aliasWrites, userAST |-> r.userAST,
     modifiedTemplateCode |-> r.modifiedTemplateCode,
     injectedCode |-> r.injectedCode, rewritten |-> r.rewritten]

\* webpack runs the loader on a page module
LoadModule ==
    /\ loader.status = "idle"
    /\ \E userCode \in UserTexts, resourcePath \in ResourcePaths :
          loader' = Returned(userCode, resourcePath, DATA_FETCHING_FUNCTIONS,
                             wrapDataFetchersLoader(DATA_FETCHING_FUNCTIONS, templateFile,
                                                    userCode, resourcePath))
    /\ DATA_FETCHING_FUNCTIONS' = loader'.registry
    /\ UNCHANGED <<templateFile, job, wrapper>>

\* webpack takes the returned text; the loader is free for the next module
EmitModule ==
    /\ loader.status = "returned"
    /\ loader' = Idle
    /\ UNCHANGED <<DATA_FETCHING_FUNCTIONS, templateFile, job, wrapper>>

Next == LoadModule \/ EmitModule

Spec == Init /\ [][Next]_vars

----------------------------------------------------------------------------
(* Properties *)

FunctionNameSet == {FunctionNames[k] : k \in 1..Len(FunctionNames)}

\* the set of the paths of a sequence of paths
PathSet(paths) == {paths[k] : k \in 1..Len(paths)}

\* a loader invocation has returned
HasReturned == loader.status = "returned"

\* the dialect the user code of the invocation was parsed in
LoadedAsTS == IsTSPath(loader.resourcePath)

\* the invocation got past the module-form gate and the substring pre-filter
PassedFilters ==
    /\ isESM(loader.userCode)
    /\ \E fn \in FunctionNameSet : includes(loader.userCode, NameOf(fn))

\* a direct call of renameIdentifiers has returned (it did not die of a
\* call stack overflow)
Renamed == job.phase = "renamed" /\ ~job.out.overflow

\* the alias that call returned
AliasUsed == job.out.result[1]

\* the contexts in which the decision table says "do not rename"
DoNotRename(ast, path) ==
    \/ ast[path.i].type = "ImportSpecifier" /\ path.f = "imported"
    \/ ast[path.i].type = "Property" /\ path.f = "key"
    \/ ast[path.i].type = "MemberExpression" /\ path.f = "property"

\* C1: a user text that passes both filters and does not parse is returned
\* exactly as it came, nothing appended, and exactly one warning is logged.
C1_FallbackReturnsInputVerbatim ==
    (HasReturned /\ PassedFilters /\ ~Parses(loader.userCode, LoadedAsTS))
        => (loader.output = loader.userCode /\ loader.warnings = 1)

\* C2: renameIdentifiers leaves every occurrence of origName in a "do not
\* rename" context as it is and names every other occurrence of it the alias,
\* which is the name handed in when one was.
C2_ReferenceLabelPartition ==
    Renamed =>
        /\ \A path \in PathSet(IdentifierPaths(job.ast)) :
              NameAt(job.ast, path) = job.origName =>
                  NameAt(job.out.ast, path) =
                      IF DoNotRename(job.ast, path) THEN job.origName ELSE AliasUsed
        /\ (job.newName # EmptyString /\ job.out.result # << >>) => AliasUsed = job.newName

C2_Witness ==
    /\ Renamed
    /\ \E labelPath, referencePath \in PathSet(IdentifierPaths(job.ast)) :
          /\ NameAt(job.ast, labelPath) = job.origName
          /\ NameAt(job.ast, referencePath) = job.origName
          /\ DoNotRename(job.ast, labelPath)
          /\ ~DoNotRename(job.ast, referencePath)
          /\ NameAt(job.out.ast, labelPath) = job.origName
          /\ NameAt(job.out.ast, referencePath) = AliasUsed
          /\ AliasUsed # job.origName

\* C3: for an export specifier `L as origName` with L another name, both parts
\* of the specifier end up named the alias, and so does every occurrence of L
\* in a context that is renamed: the nested call reuses the alias.
C3_ExportAliasingReusesAlias ==
    Renamed =>
        \A i \in 1..Len(job.ast) :
            (/\ job.ast[i].type = "ExportSpecifier"
             /\ job.ast[i].exported = job.origName
             /\ job.ast[i].local # job.origName)
            => /\ job.out.ast[i].local = AliasUsed
               /\ job.out.ast[i].exported = AliasUsed
               /\ \A path \in PathSet(IdentifierPaths(job.ast)) :
                     (/\ NameAt(job.ast, path) = job.ast[i].local
                      /\ ~DoNotRename(job.ast, path))
                     => NameAt(job.out.ast, path) = AliasUsed

C3_Witness ==
    /\ Renamed
    /\ \E i \in 1..Len(job.ast) :
          /\ job.ast[i].type = "ExportSpecifier"
          /\ job.ast[i].exported = job.origName
          /\ job.ast[i].local = foo
          /\ AliasUsed # foo
          /\ job.out.ast[i].local = AliasUsed
          /\ job.out.ast[i].exported = AliasUsed
          /\ \E path \in PathSet(IdentifierPaths(job.ast)) :
                /\ path.i # i
                /\ NameAt(job.ast, path) = foo
                /\ ~DoNotRename(job.ast, path)
                /\ NameAt(job.out.ast, path) = AliasUsed

\* C4: for an export specifier whose two parts are both named origName, the
\* specifier is still there after the call, both parts are named the alias,
\* and the specifier started no nested call of renameIdentifiers.
C4_ShorthandExportStartsNoRecursion ==
    Renamed =>
        \A i \in 1..Len(job.ast) :
            (/\ job.ast[i].type = "ExportSpecifier"
             /\ job.ast[i].exported = job.origName
             /\ job.ast[i].local = job.origName)
            => /\ Len(job.out.ast) = Len(job.ast)
               /\ job.out.ast[i].type = "ExportSpecifier"
               /\ job.out.ast[i].local = AliasUsed
               /\ job.out.ast[i].exported = AliasUsed
               /\ i \notin job.out.recursed

\* C5: the alias findAvailibleAlias returns is the name of no identifier of
\* the tree it was called on, in whatever role.
C5_AliasCollidesWithNothing ==
    /\ job.phase = "allocated" =>
          \A path \in PathSet(IdentifierPaths(job.ast)) : NameAt(job.ast, path) # job.alias
    /\ (Renamed /\ job.newName = EmptyString /\ job.out.result # << >>) =>
          \A path \in PathSet(IdentifierPaths(job.ast)) : NameAt(job.ast, path) # AliasUsed

C5_Witness ==
    /\ job.phase = "allocated"
    /\ \E path \in PathSet(IdentifierPaths(job.ast)) :
          NameAt(job.ast, path) = Underscore \o job.origName
    /\ job.alias = Underscore \o (Underscore \o job.origName)

\* the user code of the invocation as a tree, before anything was renamed
UserTree == makeAST(loader.userCode, LoadedAsTS)

\* the tracked name occurs as an identifier in the user tree
Found(fn) == Len(findIdentifiers(UserTree, NameOf(fn))) > 0

PlaceholderOf(fn) == InitialRegistry[fn].placeholder

\* C6: when no tracked name is an identifier of the user tree, the template
\* text wrapFunctions returns holds none of the three placeholders, no export
\* specifier exporting a tracked name and no single declaration of one; nor
\* does the text the loader appends.
C6_NothingFoundDeletesEveryWrapper ==
    (HasReturned /\ loader.rewritten /\ \A fn \in FunctionNameSet : ~Found(fn)) =>
        /\ Parses(loader.modifiedTemplateCode, FALSE)
        /\ \A fn \in FunctionNameSet :
              /\ ~includes(loader.modifiedTemplateCode, PlaceholderOf(fn))
              /\ ~includes(loader.injectedCode, PlaceholderOf(fn))
              /\ findExports(makeAST(loader.modifiedTemplateCode, FALSE), NameOf(fn)) = {}
              /\ findDeclarations(makeAST(loader.modifiedTemplateCode, FALSE), NameOf(fn)) = {}

C6_Witness ==
    /\ HasReturned
    /\ loader.rewritten
    /\ \A fn \in FunctionNameSet : ~Found(fn)
    /\ includes(loader.userCode, gSSP)
    /\ loader.modifiedTemplateCode = << <<W("import"), <<"withSentry">> >> >>

\* C7: in every invocation each alias of the registry is assigned at most
\* once and the template text the loader appends holds no placeholder; the
\* placeholder of a function found in the user tree is replaced by the alias
\* recorded in this invocation, which is the name its identifiers now have,
\* and for a function not found nothing is recorded or substituted: its
\* placeholder was deleted with its block.
C7_PlaceholdersFilledWithThisRunsAlias ==
    HasReturned =>
        /\ \A fn \in FunctionNameSet :
              /\ loader.aliasWrites[fn] <= 1
              /\ ~includes(loader.injectedCode, PlaceholderOf(fn))
        /\ loader.rewritten =>
              \A fn \in FunctionNameSet :
                  IF Found(fn)
                  THEN /\ loader.aliasWrites[fn] = 1
                       /\ loader.registry[fn].alias # EmptyString
                       /\ Len(findIdentifiers(loader.userAST, loader.registry[fn].alias)) > 0
                       /\ includes(loader.modifiedTemplateCode, PlaceholderOf(fn))
                       /\ \E i \in findDeclarations(makeAST(loader.injectedCode, FALSE),
                                                    NameOf(fn)) :
                             makeAST(loader.injectedCode, FALSE)[i].declarations[1].init
                                 = loader.registry[fn].alias
                  ELSE /\ loader.aliasWrites[fn] = 0
                       /\ loader.registry[fn] = loader.registryBefore[fn]
                       /\ ~includes(loader.modifiedTemplateCode, PlaceholderOf(fn))

C7_Witness ==
    /\ HasReturned
    /\ loader.rewritten
    /\ Found("getStaticPaths")
    /\ includes(loader.injectedCode, loader.registry["getStaticPaths"].alias)
    /\ ~Found("getServerSideProps")
    /\ loader.registryBefore["getServerSideProps"].alias # EmptyString
    /\ ~includes(loader.injectedCode, loader.registry["getServerSideProps"].alias)

\* C8: at the start of every invocation the alias of each of the three
\* tracked functions is empty.
C8_RegistryFreshAtEveryStart ==
    HasReturned => \A fn \in FunctionNameSet : loader.registryBefore[fn].alias = EmptyString

\* C9: in the loader's pass an occurrence of a found tracked name in a "do not
\* rename" context keeps the tracked name in the tree that is printed, and
\* the other occurrences are named the recorded alias.
C9_LoaderFollowsDecisionTable ==
    (HasReturned /\ loader.rewritten) =>
        \A fn \in FunctionNameSet :
            \A path \in PathSet(IdentifierPaths(UserTree)) :
                NameAt(UserTree, path) = NameOf(fn) =>
                    NameAt(loader.userAST, path) =
                        IF DoNotRename(UserTree, path) THEN NameOf(fn)
                        ELSE loader.registry[fn].alias

\* C10: a user text that holds none of the three names, or is not of the ESM
\* form, is returned unchanged, with no call of makeAST, no read and no
\* registration of the template and no change of the registry.
C10_BypassTouchesNothing ==
    (HasReturned /\ ~PassedFilters) =>
        /\ loader.output = loader.userCode
        /\ loader.makeASTCalls = 0
        /\ loader.templateReads = 0
        /\ loader.dependencies = 0
        /\ loader.warnings = 0
        /\ DATA_FETCHING_FUNCTIONS = loader.registryBefore

C10_Witness ==
    /\ HasReturned
    /\ ~isESM(loader.userCode)
    /\ includes(loader.userCode, gSSP)
    /\ loader.registryBefore["getServerSideProps"].alias # EmptyString
    /\ loader.output = loader.userCode
    /\ DATA_FETCHING_FUNCTIONS = loader.registryBefore

\* C11: the text an invocation returns is the text the same user code, template
\* and path give in a process that has rewritten nothing before, whatever
\* invocations ran earlier.
C11_OutputIndependentOfEarlierRuns ==
    HasReturned =>
        loader.output = wrapDataFetchersLoader(InitialRegistry, templateFile,
                                               loader.userCode, loader.resourcePath).output

C11_Witness ==
    /\ HasReturned
    /\ loader.rewritten
    /\ \E fn \in FunctionNameSet :
          /\ Found(fn)
          /\ loader.registryBefore[fn].alias # EmptyString
          /\ loader.registryBefore[fn].alias # loader.registry[fn].alias
    /\ \E fn \in FunctionNameSet :
          ~Found(fn) /\ loader.registryBefore[fn].alias # EmptyString

\* C12: every call of renameIdentifiers returns, and the nested call on the old
\* local name of an export specifier starts no nested call of its own: the
\* calls are never more than one level below the outermost one.
C12_RecursionOneLevelDeep ==
    job.phase = "renamed" =>
        /\ ~job.out.overflow
        /\ job.out.deepest <= 1

\* C13: after renameIdentifiers every property still marked shorthand has a
\* key and a value of the same name (the trees of the calls start that way).
C13_ShorthandMeansSameNames ==
    Renamed =>
        \A i \in 1..Len(job.out.ast) :
            (job.out.ast[i].type = "Property" /\ job.out.ast[i].shorthand) =>
                job.out.ast[i].key = job.out.ast[i].value

\* the name with k underscores before it
RECURSIVE Prefixed(_, _)
Prefixed(name, k) == IF k = 0 THEN name ELSE Underscore \o Prefixed(name, k - 1)

\* some identifier of the tree has the name
Taken(ast, name) ==
    \E path \in PathSet(IdentifierPaths(ast)) : NameAt(ast, path) = name

\* C14: findAvailibleAlias returns the name prefixed by k underscores for the
\* least k >= 1 such that no identifier of the tree has that name: every
\* shorter prefixed name is taken, the returned one is not.
C14_AliasHasLeastPrefix ==
    job.phase = "allocated" =>
        \E k \in 1..(2 * MaxNodes + 1) :
            /\ job.alias = Prefixed(job.origName, k)
            /\ ~Taken(job.ast, job.alias)
            /\ \A j \in 1..(k - 1) : Taken(job.ast, Prefixed(job.origName, j))

C14_Witness ==
    /\ job.phase = "allocated"
    /\ Len(job.ast) = 2
    /\ job.ast[1].type = "FunctionDeclaration"
    /\ job.ast[1].id = Prefixed(job.origName, 2)
    /\ job.ast[2].type = "FunctionDeclaration"
    /\ job.ast[2].id = Prefixed(job.origName, 1)
    /\ job.alias = Prefixed(job.origName, 3)

----------------------------------------------------------------------------
(* wrapperUtils.ts: wrapperCore and callOriginal, at run time.  A promise   *)
(* is a record of its state and of the value or error it settled with; an  *)
(* async function runs up to its first await when it is called, and goes   *)
(* on when the awaited promise has settled.                                *)

NoPromise == [state |-> "none", value |-> "none"]
Pending == [state |-> "pending", value |-> "none"]
Fulfilled(value) == [state |-> "fulfilled", value |-> value]
Rejected(err) == [state |-> "rejected", value |-> err]

\* what the user's function does when called: return its result, throw,
\* return a promise that fulfils, return a promise that rejects
Behaviours == {"returns", "throws", "resolves", "rejects"}
Props == "props"
Err == "err"

\* the span argument of callOriginal when there is none
NoSpan == [given |-> FALSE, finished |-> 0, description |-> EmptyString]

\* the active transaction of the request, as getActiveTransaction finds it
NoTransaction == [active |-> FALSE, name |-> EmptyString, source |-> "none"]
RequestTransaction == [active |-> TRUE, name |-> <<"GET /posts/1">>, source |-> "url"]

Routes == {<<"/posts/[id]">>, <<"/">>}

\* origFunction.name.replace(/^_*/, '')
RECURSIVE StripLeadingUnderscores(_)
StripLeadingUnderscores(name) ==
    IF Len(name) > 0 /\ <<Head(name)>> = Underscore
    THEN StripLeadingUnderscores(Tail(name))
    ELSE name

\* `${wrappedFunctionName} (${route})`
SpanDescription(wrappedFunctionName, route) ==
    wrappedFunctionName \o <<" (">> \o route \o <<")">>

\* callOriginal up to its return: `w` is the call of wrapperCore so far, with
\* `w.span` the span handed over (NoSpan when none); `inner` is the promise the
\* async function callOriginal returns, `origPromise` the one origFunction
\* returned, if it returned one
callOriginal(w) ==
    CASE w.origFunction.behaviour = "throws" ->
            [w EXCEPT !.span.finished = IF w.span.given THEN @ + 1 ELSE @,
                      !.captured = Append(@, Err),
                      !.inner = Rejected(Err)]
      [] w.origFunction.behaviour = "returns" ->
            [w EXCEPT !.inner = Fulfilled(Props)]
      [] OTHER ->
            [w EXCEPT !.origPromise = Pending, !.inner = Pending]

\* wrapperCore with an active transaction, up to `await callOriginal(...)`
WithTransaction(w) ==
    callOriginal(
        [w EXCEPT !.transaction.name = w.route,
                  !.transaction.source = "route",
                  !.span = [given |-> TRUE, finished |-> 0,
                            description |->
                                SpanDescription(
                                    StripLeadingUnderscores(w.origFunction.name),
                                    w.route)],
                  !.pc = "awaiting"])

\* wrapperCore without one: `return callOriginal(origFunction, context)`
WithoutTransaction(w) == callOriginal([w EXCEPT !.pc = "returned"])

\* a call of wrapperCore by the wrapped data-fetching function
WrapInit ==
    /\ DATA_FETCHING_FUNCTIONS = InitialRegistry
    /\ templateFile = EmptyText
    /\ loader = Idle
    /\ job = NoJob
    /\ wrapper \in {[pc |-> "called",
                     origFunction |-> [name |-> name, behaviour |-> behaviour],
                     route |-> route, transaction |-> transaction,
                     span |-> NoSpan, captured |-> << >>, inner |-> NoPromise,
                     origPromise |-> NoPromise, outcome |-> NoPromise] :
                        name \in {NameOf(FunctionNames[k]) : k \in 1..Len(FunctionNames)}
                                 \cup {_gSSP, __gSSP},
                        behaviour \in Behaviours, route \in Routes,
                        transaction \in {NoTransaction, RequestTransaction}}

\* wrapperCore runs up to its await, or to its return of callOriginal's promise
CallWrapperCore ==
    /\ wrapper.pc = "called"
    /\ wrapper' = IF wrapper.transaction.active THEN WithTransaction(wrapper)
                  ELSE WithoutTransaction(wrapper)
    /\ UNCHANGED <<DATA_FETCHING_FUNCTIONS, templateFile, loader, job>>

\* the promise origFunction returned settles; callOriginal's promise, resolved
\* with it by `return`, settles the same way
OriginalSettles ==
    /\ wrapper.pc \in {"awaiting", "returned"}
    /\ wrapper.origPromise.state = "pending"
    /\ wrapper' = IF wrapper.origFunction.behaviour = "resolves"
                  THEN [wrapper EXCEPT !.origPromise = Fulfilled(Props),
                                       !.inner = Fulfilled(Props)]
                  ELSE [wrapper EXCEPT !.origPromise = Rejected(Err),
                                       !.inner = Rejected(Err)]
    /\ UNCHANGED <<DATA_FETCHING_FUNCTIONS, templateFile, loader, job>>

\* wrapperCore goes on after its await: span.finish() and return props, or the
\* await throws and the function is left
ResumeAfterAwait ==
    /\ wrapper.pc = "awaiting"
    /\ wrapper.inner.state # "pending"
    /\ wrapper' = IF wrapper.inner.state = "fulfilled"
                  THEN [wrapper EXCEPT !.span.finished = @ + 1,
                                       !.outcome = wrapper.inner,
                                       !.pc = "settled"]
                  ELSE [wrapper EXCEPT !.outcome = wrapper.inner, !.pc = "settled"]
    /\ UNCHANGED <<DATA_FETCHING_FUNCTIONS, templateFile, loader, job>>

\* the promise of wrapperCore, resolved with callOriginal's, settles with it
AdoptResult ==
    /\ wrapper.pc = "returned"
    /\ wrapper.inner.state # "pending"
    /\ wrapper' = [wrapper EXCEPT !.outcome = wrapper.inner, !.pc = "settled"]
    /\ UNCHANGED <<DATA_FETCHING_FUNCTIONS, templateFile, loader, job>>

WrapNext == CallWrapperCore \/ OriginalSettles \/ ResumeAfterAwait \/ AdoptResult

WrapSpec == WrapInit /\ [][WrapNext]_vars

\* C15: a call of wrapperCore with an active transaction has finished its span
\* exactly once when it has settled, and when the original function failed,
\* by throwing or by a promise that rejects, the error was captured with
\* captureException and is the error the call rejects with.
C15_FailureFinishesSpanAndCaptures ==
    (wrapper.pc = "settled" /\ wrapper.transaction.active) =>
        /\ wrapper.span.finished = 1
        /\ wrapper.origFunction.behaviour \in {"throws", "rejects"} =>
              /\ wrapper.captured = <<Err>>
              /\ wrapper.outcome = Rejected(Err)

====
